---- MODULE Spec2Model ----
(***************************************************************************)
(* trainalert: the metric tracker (utils/metrics.py) and the notification  *)
(* controller (core.py) with its channel fan-out.                          *)
(*                                                                         *)
(* Metric values are integers (only their order matters to the code).      *)
(* An optional value (Python None or a value) is a sequence of length 0    *)
(* or 1.  Metric names are sequences of characters, so that the polarity   *)
(* rule is computed from the name as the code computes it.                 *)
(***************************************************************************)
EXTENDS Integers, Sequences, FiniteSets, TLC

VARIABLES
    metric_tracker,         \* TrainingNotifier.metric_tracker: the MetricTracker object
    config,                 \* TrainingNotifier.config.config: key -> optional value
    notifiers,              \* TrainingNotifier.notifiers: list of channel objects
    notify_every_n_epochs,
    notify_on_improvement,
    notify_on_error,
    include_plots,
    training_config,
    dispatch,               \* the position of a _send_to_all_notifiers call in progress
    hist,                   \* history: per metric name, the <<value, epoch>> arguments logged
    last                    \* history: the last call made to the tracker or the controller

vars == <<metric_tracker, config, notifiers, notify_every_n_epochs,
          notify_on_improvement, notify_on_error, include_plots,
          training_config, dispatch, hist, last>>

ctlvars == <<config, notifiers, notify_every_n_epochs, notify_on_improvement,
             notify_on_error, include_plots, training_config, dispatch>>

(***************************************************************************)
(* Bounds and input sets                                                   *)
(***************************************************************************)
MaxLogs == 3        \* Tracker.log calls in a run of SpecTracker
MaxCtlLogs == 2     \* Tracker.log calls made through the controller in a run of SpecLogging
MaxFanLogs == 2     \* log_metric calls in a run of SpecFanout
MaxValue == 2       \* metric values are 1..MaxValue
MaxEpoch == 2       \* epoch arguments are None or 0..MaxEpoch

None == <<>>
Some(x) == <<x>>

NameLoss == <<"l", "o", "s", "s">>
NameAcc == <<"a", "c", "c">>
Names == {NameLoss, NameAcc}
Values == 1..MaxValue
EpochArgs == {None} \cup {Some(e) : e \in 0..MaxEpoch}

(***************************************************************************)
(* Sequence helpers                                                        *)
(***************************************************************************)
Range(s) == {s[i] : i \in 1..Len(s)}

Last(s) == s[Len(s)]

Front(s) == SubSeq(s, 1, Len(s) - 1)

(***************************************************************************)
(* str.lower() and the substring test `sub in s`                           *)
(***************************************************************************)
LowerChar(c) ==
    CASE c = "L" -> "l"
      [] c = "O" -> "o"
      [] c = "S" -> "s"
      [] c = "E" -> "e"
      [] c = "R" -> "r"
      [] c = "A" -> "a"
      [] c = "C" -> "c"
      [] OTHER -> c

LowerStr(s) == [i \in 1..Len(s) |-> LowerChar(s[i])]

Contains(s, sub) ==
    \E i \in 1..(Len(s) - Len(sub) + 1) : SubSeq(s, i, i + Len(sub) - 1) = sub

\* mutant: the name is compared without lower()
IsLossCaseSensitive(metric_name) ==
    \/ Contains(metric_name, <<"l", "o", "s", "s">>)
    \/ Contains(metric_name, <<"e", "r", "r", "o", "r">>)

IsLoss(metric_name) ==
    \/ Contains(LowerStr(metric_name), <<"l", "o", "s", "s">>)
    \/ Contains(LowerStr(metric_name), <<"e", "r", "r", "o", "r">>)

(***************************************************************************)
(* MetricTracker                                                           *)
(***************************************************************************)
\* `order` is the order of the keys of the dict `metrics` (insertion order)
NewTracker ==
    [metrics |-> <<>>, order |-> <<>>, epochs |-> <<>>, timestamps |-> 0,
     best_metrics |-> <<>>]

\* mutant: a value equal to the current best counts as an improvement
UpdateBestMetricTie(best, metric_name, value, epoch) ==
    IF metric_name \notin DOMAIN best
    THEN best @@ (metric_name :> [value |-> value, epoch |-> epoch, improved |-> TRUE])
    ELSE LET current_best == best[metric_name].value
             improved == IF IsLoss(metric_name)
                         THEN value <= current_best
                         ELSE value >= current_best
         IN  IF improved
             THEN [best EXCEPT ![metric_name] =
                       [value |-> value, epoch |-> epoch, improved |-> TRUE]]
             ELSE [best EXCEPT ![metric_name].improved = FALSE]

\* mutant: the best value is replaced but the epoch of the first best is kept
UpdateBestMetricStaleEpoch(best, metric_name, value, epoch) ==
    IF metric_name \notin DOMAIN best
    THEN best @@ (metric_name :> [value |-> value, epoch |-> epoch, improved |-> TRUE])
    ELSE LET current_best == best[metric_name].value
             improved == IF IsLoss(metric_name)
                         THEN value < current_best
                         ELSE value > current_best
         IN  IF improved
             THEN [best EXCEPT ![metric_name].value = value,
                               ![metric_name].improved = TRUE]
             ELSE [best EXCEPT ![metric_name].improved = FALSE]

\* mutant: a log clears the improved flag of every other metric
UpdateBestMetricClearsOthers(best, metric_name, value, epoch) ==
    LET cleared == [n \in DOMAIN best |->
                       IF n = metric_name THEN best[n] ELSE [best[n] EXCEPT !.improved = FALSE]]
    IN  IF metric_name \notin DOMAIN best
        THEN cleared @@ (metric_name :> [value |-> value, epoch |-> epoch, improved |-> TRUE])
        ELSE LET current_best == best[metric_name].value
                 improved == IF IsLoss(metric_name)
                             THEN value < current_best
                             ELSE value > current_best
             IN  IF improved
                 THEN [cleared EXCEPT ![metric_name] =
                           [value |-> value, epoch |-> epoch, improved |-> TRUE]]
                 ELSE [cleared EXCEPT ![metric_name].improved = FALSE]

\* MetricTracker._update_best_metric, as a function of the best_metrics dict
UpdateBestMetric(best, metric_name, value, epoch) ==
    IF metric_name \notin DOMAIN best
    THEN best @@ (metric_name :> [value |-> value, epoch |-> epoch, improved |-> TRUE])
    ELSE LET current_best == best[metric_name].value
             improved == IF IsLoss(metric_name)
                         THEN value < current_best
                         ELSE value > current_best
         IN  IF improved
             THEN [best EXCEPT ![metric_name] =
                       [value |-> value, epoch |-> epoch, improved |-> TRUE]]
             ELSE [best EXCEPT ![metric_name].improved = FALSE]

\* mutant: the new value is inserted at the front of the series
TrackerLogPrepend(t, metric_name, value, epoch) ==
    [metrics |->
        IF metric_name \notin DOMAIN t.metrics
        THEN t.metrics @@ (metric_name :> <<value>>)
        ELSE [t.metrics EXCEPT ![metric_name] = <<value>> \o @],
     order |->
        IF metric_name \notin DOMAIN t.metrics
        THEN Append(t.order, metric_name)
        ELSE t.order,
     timestamps |-> t.timestamps + 1,
     epochs |->
        IF epoch # None /\ epoch[1] \notin Range(t.epochs)
        THEN Append(t.epochs, epoch[1])
        ELSE t.epochs,
     best_metrics |-> UpdateBestMetric(t.best_metrics, metric_name, value, epoch)]

\* mutant: the epoch is recorded at every log that passes one
TrackerLogRepeatEpoch(t, metric_name, value, epoch) ==
    [metrics |->
        IF metric_name \notin DOMAIN t.metrics
        THEN t.metrics @@ (metric_name :> <<value>>)
        ELSE [t.metrics EXCEPT ![metric_name] = Append(@, value)],
     order |->
        IF metric_name \notin DOMAIN t.metrics
        THEN Append(t.order, metric_name)
        ELSE t.order,
     timestamps |-> t.timestamps + 1,
     epochs |->
        IF epoch # None
        THEN Append(t.epochs, epoch[1])
        ELSE t.epochs,
     best_metrics |-> UpdateBestMetric(t.best_metrics, metric_name, value, epoch)]

\* mutant: the new value replaces the last value of the series
TrackerLogOverwrite(t, metric_name, value, epoch) ==
    [metrics |->
        IF metric_name \notin DOMAIN t.metrics
        THEN t.metrics @@ (metric_name :> <<value>>)
        ELSE [t.metrics EXCEPT ![metric_name] = Append(Front(@), value)],
     order |->
        IF metric_name \notin DOMAIN t.metrics
        THEN Append(t.order, metric_name)
        ELSE t.order,
     timestamps |-> t.timestamps + 1,
     epochs |->
        IF epoch # None /\ epoch[1] \notin Range(t.epochs)
        THEN Append(t.epochs, epoch[1])
        ELSE t.epochs,
     best_metrics |-> UpdateBestMetric(t.best_metrics, metric_name, value, epoch)]

\* MetricTracker.log, as a function of the tracker object
TrackerLog(t, metric_name, value, epoch) ==
    [metrics |->
        IF metric_name \notin DOMAIN t.metrics
        THEN t.metrics @@ (metric_name :> <<value>>)
        ELSE [t.metrics EXCEPT ![metric_name] = Append(@, value)],
     order |->
        IF metric_name \notin DOMAIN t.metrics
        THEN Append(t.order, metric_name)
        ELSE t.order,
     timestamps |-> t.timestamps + 1,
     epochs |->
        IF epoch # None /\ epoch[1] \notin Range(t.epochs)
        THEN Append(t.epochs, epoch[1])
        ELSE t.epochs,
     best_metrics |-> UpdateBestMetric(t.best_metrics, metric_name, value, epoch)]

\* mutant: the first element of the series instead of the last
get_latest_first(t, metric_name) ==
    IF metric_name \in DOMAIN t.metrics /\ t.metrics[metric_name] # <<>>
    THEN Some(Head(t.metrics[metric_name]))
    ELSE None

get_latest(t, metric_name) ==
    IF metric_name \in DOMAIN t.metrics /\ t.metrics[metric_name] # <<>>
    THEN Some(Last(t.metrics[metric_name]))
    ELSE None

get_all(t, metric_name) ==
    IF metric_name \in DOMAIN t.metrics THEN t.metrics[metric_name] ELSE <<>>

get_best(t, metric_name) ==
    IF metric_name \in DOMAIN t.best_metrics
    THEN Some(t.best_metrics[metric_name])
    ELSE None

\* mutant: a missing record counts as improved
check_improvement_default_true(t, metric_name) ==
    IF metric_name \in DOMAIN t.best_metrics
    THEN t.best_metrics[metric_name].improved
    ELSE TRUE

check_improvement(t, metric_name) ==
    IF metric_name \in DOMAIN t.best_metrics
    THEN t.best_metrics[metric_name].improved
    ELSE FALSE

(***************************************************************************)
(* History of the calls (not program state)                                *)
(***************************************************************************)
NoCall == [op |-> "none", args |-> <<>>, events |-> <<>>, raised |-> FALSE]

\* no _send_to_all_notifiers call is being followed step by step
NoDispatch == [pc |-> "idle", i |-> 1, trace |-> <<>>]

HistLog(h, metric_name, value, epoch) ==
    IF metric_name \notin DOMAIN h
    THEN h @@ (metric_name :> <<[value |-> value, epoch |-> epoch]>>)
    ELSE [h EXCEPT ![metric_name] = Append(@, [value |-> value, epoch |-> epoch])]

(***************************************************************************)
(* A standalone tracker: the caller logs directly to MetricTracker.log     *)
(***************************************************************************)
InitTracker ==
    /\ metric_tracker = NewTracker
    /\ config = <<>>
    /\ notifiers = <<>>
    /\ notify_every_n_epochs = 10
    /\ notify_on_improvement = TRUE
    /\ notify_on_error = TRUE
    /\ include_plots = TRUE
    /\ training_config = <<>>
    /\ dispatch = NoDispatch
    /\ hist = <<>>
    /\ last = NoCall

Log(metric_name, value, epoch) ==
    /\ metric_tracker.timestamps < MaxLogs
    /\ metric_tracker' = TrackerLog(metric_tracker, metric_name, value, epoch)
    /\ hist' = HistLog(hist, metric_name, value, epoch)
    /\ last' = [op |-> "log", raised |-> FALSE, events |-> <<>>,
                args |-> [name |-> metric_name, value |-> value, epoch |-> epoch]]
    /\ UNCHANGED ctlvars

NextTracker == \E n \in Names, v \in Values, e \in EpochArgs : Log(n, v, e)

SpecTracker == InitTracker /\ [][NextTracker]_vars

(***************************************************************************)
(* Configuration (config.py) and channel construction (notifiers/*.py)     *)
(***************************************************************************)
ConfigKeys ==
    {"email_address", "email_password", "recipient_email", "smtp_server",
     "smtp_port", "slack_webhook_url", "discord_webhook_url"}

\* the keys Config._load_from_env reads (EMAIL_ADDRESS, ..., DISCORD_WEBHOOK_URL)
EnvKeys ==
    {"email_address", "email_password", "smtp_server", "smtp_port",
     "slack_webhook_url", "discord_webhook_url"}

\* Python truthiness of an optional string: neither None nor ""
Truthy(x) == x # None /\ x[1] # ""

\* dict.get(key): the value, or None for a missing key
Get(c, key) == IF key \in DOMAIN c THEN Some(c[key]) ELSE None

\* Config.set / dict item assignment
Set(c, key, value) == [k \in DOMAIN c \cup {key} |-> IF k = key THEN value ELSE c[k]]

\* Config.update / dict.update
Update(c, d) == [k \in DOMAIN c \cup DOMAIN d |-> IF k \in DOMAIN d THEN d[k] ELSE c[k]]

DigitValue(ch) ==
    CASE ch = "0" -> 0 [] ch = "1" -> 1 [] ch = "2" -> 2 [] ch = "3" -> 3
      [] ch = "4" -> 4 [] ch = "5" -> 5 [] ch = "6" -> 6 [] ch = "7" -> 7
      [] ch = "8" -> 8 [] ch = "9" -> 9

\* int(value) of a string of decimal digits, given as a sequence of characters
RECURSIVE ParseInt(_)
ParseInt(s) ==
    IF Len(s) = 0 THEN 0 ELSE 10 * ParseInt(Front(s)) + DigitValue(s[Len(s)])

\* `if value` of os.getenv(key); the text of SMTP_PORT is a sequence of characters
TruthyEnv(env, k) ==
    env[k] # None /\ (IF k = "smtp_port" THEN env[k][1] # <<>> ELSE env[k][1] # "")

\* Config._load_from_env: env maps each key of EnvKeys to an optional string
LoadFromEnv(c, env) ==
    LET fromEnv == {k \in EnvKeys : TruthyEnv(env, k) /\ k \notin DOMAIN c}
    IN  [k \in DOMAIN c \cup fromEnv |->
            IF k \in DOMAIN c THEN c[k]
            ELSE IF k = "smtp_port" THEN ParseInt(env[k][1])
            ELSE env[k][1]]

SMTP_CONFIGS ==
    [gmail |-> [smtp_server |-> "smtp.gmail.com", smtp_port |-> 587],
     outlook |-> [smtp_server |-> "smtp-mail.outlook.com", smtp_port |-> 587],
     yahoo |-> [smtp_server |-> "smtp.mail.yahoo.com", smtp_port |-> 587]]

\* TrainingNotifier.__init__, lines 65-84: the configuration it assembles
CtorConfig(a) ==
    LET c0 == LoadFromEnv(IF a.config = None THEN <<>> ELSE a.config[1], a.env)
        c1 == IF Truthy(a.email) THEN Set(c0, "email_address", a.email[1]) ELSE c0
        c2 == IF Truthy(a.email_password)
              THEN Set(c1, "email_password", a.email_password[1]) ELSE c1
        c3 == IF Truthy(a.recipient_email)
              THEN Set(c2, "recipient_email", a.recipient_email[1]) ELSE c2
        c4 == IF a.provider \in DOMAIN SMTP_CONFIGS
              THEN Update(c3, SMTP_CONFIGS[a.provider]) ELSE c3
        c5 == IF Truthy(a.slack_webhook_url)
              THEN Set(c4, "slack_webhook_url", a.slack_webhook_url[1]) ELSE c4
    IN  IF Truthy(a.discord_webhook_url)
        THEN Set(c5, "discord_webhook_url", a.discord_webhook_url[1]) ELSE c5

\* mutant: the e-mail channel is disabled only when both credentials are missing
EmailNotifierInitAnd(c) ==
    [kind |-> "Email",
     enabled |-> ~(~Truthy(Get(c, "email_address")) /\ ~Truthy(Get(c, "email_password")))]

\* EmailNotifier.__init__: enabled unless the address or the password is missing
EmailNotifierInit(c) ==
    [kind |-> "Email",
     enabled |-> ~(~Truthy(Get(c, "email_address")) \/ ~Truthy(Get(c, "email_password")))]

\* mutant: the Slack channel is enabled whatever the configuration holds
SlackNotifierInitAlways(c) ==
    [kind |-> "Slack", enabled |-> TRUE]

\* SlackNotifier.__init__
SlackNotifierInit(c) ==
    [kind |-> "Slack", enabled |-> Truthy(Get(c, "slack_webhook_url"))]

\* DiscordNotifier.__init__
DiscordNotifierInit(c) ==
    [kind |-> "Discord", enabled |-> Truthy(Get(c, "discord_webhook_url"))]

\* TrainingNotifier._setup_notifiers
SetupNotifiers(c) ==
    LET email_notifier == EmailNotifierInit(c)
        slack_notifier == SlackNotifierInit(c)
        discord_notifier == DiscordNotifierInit(c)
    IN  (IF email_notifier.enabled THEN <<email_notifier>> ELSE <<>>)
        \o (IF slack_notifier.enabled THEN <<slack_notifier>> ELSE <<>>)
        \o (IF discord_notifier.enabled THEN <<discord_notifier>> ELSE <<>>)

(***************************************************************************)
(* Fan-out.  out[i] is what the send of the i-th channel of the list does: *)
(* "ok" (returns True), "fail" (returns False) or "raise" (an exception).  *)
(***************************************************************************)
Outcomes == {"ok", "fail", "raise"}

OutcomeFns(ns) == [1..Len(ns) -> Outcomes]

\* the outcomes to choose from for an event that is dispatched only if `due`
OutcomesIf(due, ns) == IF due THEN OutcomeFns(ns) ELSE {[i \in 1..Len(ns) |-> "ok"]}

\* mutant: no try/except around the send
RECURSIVE SendLoopNoCatch(_, _, _)
SendLoopNoCatch(ns, out, i) ==
    IF i > Len(ns) THEN [calls |-> <<>>, raised |-> FALSE]
    ELSE IF ~ns[i].enabled THEN SendLoopNoCatch(ns, out, i + 1)
    ELSE IF out[i] = "raise"
         THEN [calls |-> <<[kind |-> ns[i].kind, outcome |-> out[i]]>>, raised |-> TRUE]
         ELSE LET rest == SendLoopNoCatch(ns, out, i + 1)
              IN  [calls |-> <<[kind |-> ns[i].kind, outcome |-> out[i]]>> \o rest.calls,
                   raised |-> rest.raised]

\* mutant: a send that returned False or raised is tried once more
RECURSIVE SendLoopRetry(_, _, _)
SendLoopRetry(ns, out, i) ==
    IF i > Len(ns) THEN [calls |-> <<>>, raised |-> FALSE]
    ELSE IF ~ns[i].enabled THEN SendLoopRetry(ns, out, i + 1)
    ELSE LET rest == SendLoopRetry(ns, out, i + 1)
             call == [kind |-> ns[i].kind, outcome |-> out[i]]
         IN  [calls |-> (IF out[i] = "ok" THEN <<call>> ELSE <<call, call>>) \o rest.calls,
              raised |-> rest.raised]

\* the loop of _send_to_all_notifiers from the i-th channel on: the send calls
\* made, in order, and whether an exception leaves the loop
RECURSIVE SendLoopFrom(_, _, _)
SendLoopFrom(ns, out, i) ==
    IF i > Len(ns) THEN [calls |-> <<>>, raised |-> FALSE]
    ELSE IF ~ns[i].enabled THEN SendLoopFrom(ns, out, i + 1)
    ELSE LET rest == SendLoopFrom(ns, out, i + 1)
         IN  [calls |-> <<[kind |-> ns[i].kind, outcome |-> out[i]]>> \o rest.calls,
              raised |-> rest.raised]

\* TrainingNotifier._send_to_all_notifiers: one notification event
SendToAllNotifiers(ns, out, type, content) ==
    LET r == SendLoopFrom(ns, out, 1)
    IN  [events |-> <<[type |-> type, content |-> content, calls |-> r.calls]>>,
         raised |-> r.raised]

(***************************************************************************)
(* Plots (visualizers/plots.py).  Axes.plot(x, y) raises ValueError when   *)
(* x and y differ in length; nothing between it and the caller of the      *)
(* controller catches it.                                                  *)
(***************************************************************************)
PlotThreshold == 4

\* x_axis = epochs if epochs else list(range(len(values)))
PlotXAxisLen(t, values) == IF t.epochs # <<>> THEN Len(t.epochs) ELSE Len(values)

\* some ax.plot(x_axis, values) of _generate_plots raises
PlotRaises(t) ==
    \E n \in DOMAIN t.metrics : PlotXAxisLen(t, t.metrics[n]) # Len(t.metrics[n])

\* TrainingNotifier._generate_plots: the attachments, when no plot raises
GeneratePlots(t) ==
    IF Cardinality(DOMAIN t.metrics) <= PlotThreshold
    THEN {[plot |-> "multi", names |-> DOMAIN t.metrics]}
    ELSE {[plot |-> "single", names |-> {n}] : n \in DOMAIN t.metrics}

\* the ax.plot(x_axis, values) of the plot of metric n raises
PlotRaisesFor(t, n) == PlotXAxisLen(t, t.metrics[n]) # Len(t.metrics[n])

\* TrainingNotifier._generate_plots: the requests made to the plot generator, in
\* order; a request that raises is the last one made
PlotRequests(t) ==
    IF Cardinality(DOMAIN t.metrics) <= PlotThreshold
    THEN <<[plot |-> "multi", names |-> DOMAIN t.metrics]>>
    ELSE LET bad == {i \in 1..Len(t.order) : PlotRaisesFor(t, t.order[i])}
             n == IF bad = {} THEN Len(t.order)
                  ELSE CHOOSE i \in bad : \A j \in bad : i <= j
         IN  [i \in 1..n |-> [plot |-> "single", names |-> {t.order[i]}]]

\* core.py 205-207 and 242-244: the plot requests of one checkpoint or
\* training_complete call on tracker t
RequestedPlots(t) ==
    IF include_plots /\ DOMAIN t.metrics # {} THEN PlotRequests(t) ELSE <<>>

\* mutant: count is the number of log calls of the tracker, whatever the name
get_summary_count_calls(t) ==
    [total_metrics |-> Cardinality(DOMAIN t.metrics),
     total_epochs |-> Len(t.epochs),
     metrics |->
        [n \in {m \in DOMAIN t.metrics : t.metrics[m] # <<>>} |->
            [latest |-> Last(t.metrics[n]),
             best |-> IF n \in DOMAIN t.best_metrics
                      THEN Some(t.best_metrics[n].value) ELSE None,
             best_epoch |-> IF n \in DOMAIN t.best_metrics
                            THEN t.best_metrics[n].epoch ELSE None,
             count |-> t.timestamps]]]

\* MetricTracker.get_summary (without the elapsed time)
get_summary(t) ==
    [total_metrics |-> Cardinality(DOMAIN t.metrics),
     total_epochs |-> Len(t.epochs),
     metrics |->
        [n \in {m \in DOMAIN t.metrics : t.metrics[m] # <<>>} |->
            [latest |-> Last(t.metrics[n]),
             best |-> IF n \in DOMAIN t.best_metrics
                      THEN Some(t.best_metrics[n].value) ELSE None,
             best_epoch |-> IF n \in DOMAIN t.best_metrics
                            THEN t.best_metrics[n].epoch ELSE None,
             count |-> Len(t.metrics[n])]]]

(***************************************************************************)
(* TrainingNotifier: what one call does.  Each operator gives the events   *)
(* dispatched by the call, in order, and whether the call raises.          *)
(***************************************************************************)
NoEvents == [events |-> <<>>, raised |-> FALSE]

\* Python truthiness of an optional int: neither None nor 0
TruthyInt(x) == x # None /\ x[1] # 0

\* core.py 166-167 and 182-183: the epoch-based notification test
EpochBoundary(epoch) ==
    /\ TruthyInt(epoch)
    /\ notify_every_n_epochs > 0
    /\ epoch[1] % notify_every_n_epochs = 0

EpochMessage(epoch) == [text |-> "Epoch completed", epoch |-> epoch]

\* mutant: the best value of every tracked metric instead of the latest
LatestMetricsBest(t) ==
    [n \in {m \in DOMAIN t.metrics : get_latest(t, m) # None} |-> get_best(t, n)[1].value]

\* the latest value of every tracked metric (core.py 195-200)
LatestMetrics(t) ==
    [n \in {m \in DOMAIN t.metrics : get_latest(t, m) # None} |-> get_latest(t, n)[1]]

\* TrainingNotifier.checkpoint on tracker t
CheckpointRun(t, message, metrics_arg, out) ==
    LET metrics == IF metrics_arg = None THEN LatestMetrics(t) ELSE metrics_arg[1]
        wantPlots == include_plots /\ DOMAIN t.metrics # {}
    IN  IF wantPlots /\ PlotRaises(t)
        THEN [events |-> <<>>, raised |-> TRUE]
        ELSE SendToAllNotifiers(notifiers, out, "checkpoint",
                 [message |-> message,
                  metrics |-> metrics,
                  attachments |-> IF wantPlots THEN Some(GeneratePlots(t)) ELSE None])

\* mutant: the test of check_improvement is dropped
ImprovementDueAnyValue(t, metric_name) ==
    /\ notify_on_improvement
    /\ get_best(t, metric_name) # None
    /\ Len(get_all(t, metric_name)) > 1
    /\ Len(get_all(t, metric_name)) >= 2

\* core.py 150-155: the improvement notification is due after the log
ImprovementDue(t, metric_name) ==
    /\ notify_on_improvement
    /\ check_improvement(t, metric_name)
    /\ get_best(t, metric_name) # None
    /\ Len(get_all(t, metric_name)) > 1
    /\ Len(get_all(t, metric_name)) >= 2

\* epoch or len(all_values)
EpochOrCount(epoch, all_values) == IF TruthyInt(epoch) THEN epoch[1] ELSE Len(all_values)

\* the rest of a call once its first part is done: an exception ends the call
Then(first, second) ==
    IF first.raised THEN first
    ELSE [events |-> first.events \o second.events, raised |-> second.raised]

\* TrainingNotifier.log_metric after Tracker.log gave tracker t
LogMetricNotify(t, metric_name, value, epoch, outs) ==
    LET all_values == get_all(t, metric_name)
        improvement ==
            IF ImprovementDue(t, metric_name)
            THEN SendToAllNotifiers(notifiers, outs[1], "improvement",
                     [name |-> metric_name,
                      prev_value |-> all_values[Len(all_values) - 1],
                      value |-> value,
                      epoch |-> EpochOrCount(epoch, all_values)])
            ELSE NoEvents
        boundary ==
            IF EpochBoundary(epoch)
            THEN CheckpointRun(t, EpochMessage(epoch), None, outs[2])
            ELSE NoEvents
    IN  Then(improvement, boundary)

\* the loop of log_metrics: Tracker.log for every entry, in the mapping's order
RECURSIVE LogAll(_, _, _)
LogAll(t, mapping, epoch) ==
    IF mapping = <<>> THEN t
    ELSE LogAll(TrackerLog(t, mapping[1].name, mapping[1].value, epoch), Tail(mapping), epoch)

\* the dict of a mapping given as the sequence of its items
AsDict(mapping) ==
    [n \in {mapping[i].name : i \in 1..Len(mapping)} |->
        mapping[CHOOSE i \in 1..Len(mapping) : mapping[i].name = n].value]

\* mutant: log_metrics handles every entry the way log_metric does
RECURSIVE LogMetricsPerEntry(_, _, _, _)
LogMetricsPerEntry(t, mapping, epoch, outs) ==
    IF mapping = <<>> THEN [tracker |-> t, events |-> <<>>, raised |-> FALSE]
    ELSE LET t1 == TrackerLog(t, mapping[1].name, mapping[1].value, epoch)
             r1 == LogMetricNotify(t1, mapping[1].name, mapping[1].value, epoch, outs)
             r2 == LogMetricsPerEntry(t1, Tail(mapping), epoch, outs)
         IN  IF r1.raised THEN [tracker |-> t1, events |-> r1.events, raised |-> TRUE]
             ELSE [tracker |-> r2.tracker, events |-> r1.events \o r2.events,
                   raised |-> r2.raised]

\* mutant: the checkpoint of log_metrics is asked for without metrics, as in log_metric
LogMetricsRunNoMetrics(t, mapping, epoch, outs) ==
    LET t1 == LogAll(t, mapping, epoch)
        boundary ==
            IF EpochBoundary(epoch)
            THEN CheckpointRun(t1, EpochMessage(epoch), None, outs[2])
            ELSE NoEvents
    IN  [tracker |-> t1, events |-> boundary.events, raised |-> boundary.raised]

\* TrainingNotifier.log_metrics
LogMetricsRun(t, mapping, epoch, outs) ==
    LET t1 == LogAll(t, mapping, epoch)
        boundary ==
            IF EpochBoundary(epoch)
            THEN CheckpointRun(t1, EpochMessage(epoch), Some(AsDict(mapping)), outs[2])
            ELSE NoEvents
    IN  [tracker |-> t1, events |-> boundary.events, raised |-> boundary.raised]

\* TrainingNotifier.training_complete
TrainingCompleteRun(t, final_metrics, out) ==
    LET wantPlots == include_plots /\ DOMAIN t.metrics # {}
    IN  IF wantPlots /\ PlotRaises(t)
        THEN [events |-> <<>>, raised |-> TRUE]
        ELSE SendToAllNotifiers(notifiers, out, "complete",
                 [summary |-> get_summary(t),
                  final_metrics |-> final_metrics,
                  attachments |-> IF wantPlots THEN Some(GeneratePlots(t)) ELSE None])

(***************************************************************************)
(* The controller: construction and one action per public method           *)
(***************************************************************************)
NoEnv == [k \in EnvKeys |-> None]

\* TrainingNotifier.__init__
Construct(a) ==
    /\ config = CtorConfig(a)
    /\ notifiers = SetupNotifiers(CtorConfig(a))
    /\ notify_every_n_epochs = a.notify_every_n_epochs
    /\ notify_on_improvement = a.notify_on_improvement
    /\ notify_on_error = a.notify_on_error
    /\ include_plots = a.include_plots
    /\ metric_tracker = NewTracker
    /\ training_config = <<>>
    /\ dispatch = NoDispatch
    /\ hist = <<>>
    /\ last = NoCall

Call(op, args, r) == [op |-> op, args |-> args, events |-> r.events, raised |-> r.raised]

TrainingConfigs == {None, Some([lr |-> 1])}

\* TrainingNotifier.start_training
StartTraining(cfg) ==
    \E out \in OutcomeFns(notifiers) :
        /\ training_config' = IF cfg = None \/ cfg[1] = <<>> THEN <<>> ELSE cfg[1]
        /\ last' = Call("start_training", [config |-> cfg],
                        SendToAllNotifiers(notifiers, out, "start",
                            [training_config |-> training_config']))
        /\ UNCHANGED <<metric_tracker, hist, config, notifiers, notify_every_n_epochs,
                       notify_on_improvement, notify_on_error, include_plots, dispatch>>

\* TrainingNotifier.log_metric
LogMetric(cap, metric_name, value, epoch) ==
    /\ metric_tracker.timestamps < cap
    /\ LET t == TrackerLog(metric_tracker, metric_name, value, epoch)
       IN  \E o1 \in OutcomesIf(ImprovementDue(t, metric_name), notifiers),
              o2 \in OutcomesIf(EpochBoundary(epoch), notifiers) :
              /\ metric_tracker' = t
              /\ last' = Call("log_metric",
                              [name |-> metric_name, value |-> value, epoch |-> epoch],
                              LogMetricNotify(t, metric_name, value, epoch, <<o1, o2>>))
    /\ hist' = HistLog(hist, metric_name, value, epoch)
    /\ UNCHANGED ctlvars

\* the mappings log_metrics is called with: the items of a dict, in insertion order
Mappings ==
    {m \in UNION {[1..k -> [name : Names, value : Values]] : k \in 0..Cardinality(Names)} :
        \A i, j \in 1..Len(m) : i # j => m[i].name # m[j].name}

RECURSIVE HistLogAll(_, _, _)
HistLogAll(h, mapping, epoch) ==
    IF mapping = <<>> THEN h
    ELSE HistLogAll(HistLog(h, mapping[1].name, mapping[1].value, epoch), Tail(mapping), epoch)

\* TrainingNotifier.log_metrics
LogMetrics(cap, mapping, epoch) ==
    /\ metric_tracker.timestamps < cap
    /\ metric_tracker.timestamps + Len(mapping) <= cap
    /\ \E o1 \in OutcomesIf(FALSE, notifiers),
          o2 \in OutcomesIf(EpochBoundary(epoch), notifiers) :
          LET r == LogMetricsRun(metric_tracker, mapping, epoch, <<o1, o2>>)
          IN  /\ metric_tracker' = r.tracker
              /\ last' = Call("log_metrics", [mapping |-> mapping, epoch |-> epoch], r)
    /\ hist' = HistLogAll(hist, mapping, epoch)
    /\ UNCHANGED ctlvars

CheckpointMetrics == {None, Some(NameAcc :> 1)}

\* TrainingNotifier.checkpoint
Checkpoint(metrics_arg) ==
    /\ \E out \in OutcomeFns(notifiers) :
          last' = Call("checkpoint", [metrics |-> metrics_arg],
                       CheckpointRun(metric_tracker, [text |-> "checkpoint", epoch |-> None],
                                     metrics_arg, out))
    /\ UNCHANGED <<metric_tracker, hist, ctlvars>>

\* TrainingNotifier.training_complete
TrainingComplete(final_metrics) ==
    /\ \E out \in OutcomeFns(notifiers) :
          last' = Call("training_complete", [final_metrics |-> final_metrics],
                       TrainingCompleteRun(metric_tracker, final_metrics, out))
    /\ UNCHANGED <<metric_tracker, hist, ctlvars>>

\* the errors handed to on_error: a string, or an exception with or without a traceback
Errors ==
    {[kind |-> "str", has_traceback |-> FALSE],
     [kind |-> "exception", has_traceback |-> FALSE],
     [kind |-> "exception", has_traceback |-> TRUE]}

\* mutant: on_error without the test of notify_on_error
OnErrorNoGuard(error) ==
    /\ \E out \in OutcomeFns(notifiers) :
          last' = Call("on_error", [error |-> error],
                       SendToAllNotifiers(notifiers, out, "error",
                           [error |-> error,
                            traceback |-> IF error.kind = "exception"
                                          THEN Some(error.has_traceback) ELSE None]))
    /\ UNCHANGED <<metric_tracker, hist, ctlvars>>

\* mutant: on_error also records the error as a value of a metric "error"
OnErrorCountsError(error) ==
    /\ IF ~notify_on_error
       THEN last' = Call("on_error", [error |-> error], NoEvents)
       ELSE \E out \in OutcomeFns(notifiers) :
               last' = Call("on_error", [error |-> error],
                            SendToAllNotifiers(notifiers, out, "error",
                                [error |-> error,
                                 traceback |-> IF error.kind = "exception"
                                               THEN Some(error.has_traceback) ELSE None]))
    /\ metric_tracker' = [metric_tracker EXCEPT
                             !.metrics = @ @@ (<<"e", "r", "r", "o", "r">> :> <<1>>)]
    /\ UNCHANGED <<hist, ctlvars>>

\* TrainingNotifier.on_error
OnError(error) ==
    /\ IF ~notify_on_error
       THEN last' = Call("on_error", [error |-> error], NoEvents)
       ELSE \E out \in OutcomeFns(notifiers) :
               last' = Call("on_error", [error |-> error],
                            SendToAllNotifiers(notifiers, out, "error",
                                [error |-> error,
                                 traceback |-> IF error.kind = "exception"
                                               THEN Some(error.has_traceback) ELSE None]))
    /\ UNCHANGED <<metric_tracker, hist, ctlvars>>

(***************************************************************************)
(* SpecLogging: the controller is constructed with the Slack channel alone *)
(* and any policy, and the training loop logs through it.                  *)
(***************************************************************************)
LoggingArgs ==
    [email : {None},
     email_password : {None},
     recipient_email : {None},
     provider : {"gmail"},
     slack_webhook_url : {Some("https://hooks.slack.com/x")},
     discord_webhook_url : {None},
     config : {None},
     env : {NoEnv},
     notify_every_n_epochs : {0, 2},
     notify_on_improvement : BOOLEAN,
     notify_on_error : {TRUE},
     include_plots : BOOLEAN]

InitLogging == \E a \in LoggingArgs : Construct(a)

NextLogging ==
    \/ \E n \in Names, v \in Values, e \in EpochArgs : LogMetric(MaxCtlLogs, n, v, e)
    \/ \E m \in Mappings, e \in EpochArgs : LogMetrics(MaxCtlLogs, m, e)

SpecLogging == InitLogging /\ [][NextLogging]_vars

(***************************************************************************)
(* SpecFanout: the controller is constructed with any combination of the   *)
(* channel arguments; every public method is called; the one metric logged *)
(* is an accuracy that rises by one at each call, at epoch 2.              *)
(***************************************************************************)
FanoutArgs ==
    [email : {None, Some("me@example.com")},
     email_password : {None, Some("secret")},
     recipient_email : {None},
     provider : {"gmail"},
     slack_webhook_url : {None, Some("https://hooks.slack.com/x")},
     discord_webhook_url : {None, Some("https://discord.com/api/webhooks/x")},
     config : {None},
     env : {NoEnv},
     notify_every_n_epochs : {2},
     notify_on_improvement : {TRUE},
     notify_on_error : BOOLEAN,
     include_plots : {TRUE}]

InitFanout == \E a \in FanoutArgs : Construct(a)

NextFanout ==
    \/ \E cfg \in TrainingConfigs : StartTraining(cfg)
    \/ LogMetric(MaxFanLogs, NameAcc, metric_tracker.timestamps + 1, Some(2))
    \/ \E m \in CheckpointMetrics : Checkpoint(m)
    \/ TrainingComplete(None)
    \/ \E err \in Errors : OnError(err)

SpecFanout == InitFanout /\ [][NextFanout]_vars

(***************************************************************************)
(* SpecCalls: one controller (Slack alone, a checkpoint every 2 epochs,    *)
(* with or without plots); the caller logs to the tracker directly,        *)
(* through log_metric and through log_metrics, and asks for checkpoints    *)
(* and for the completion notice.                                          *)
(***************************************************************************)
MaxMixLogs == 2     \* Tracker.log calls in a run of SpecCalls

CallsArgs ==
    [email : {None},
     email_password : {None},
     recipient_email : {None},
     provider : {"gmail"},
     slack_webhook_url : {Some("https://hooks.slack.com/x")},
     discord_webhook_url : {None},
     config : {None},
     env : {NoEnv},
     notify_every_n_epochs : {2},
     notify_on_improvement : {TRUE},
     notify_on_error : {TRUE},
     include_plots : BOOLEAN]

InitCalls == \E a \in CallsArgs : Construct(a)

\* MetricTracker.log called on the controller's tracker
LogDirect(cap, metric_name, value, epoch) ==
    /\ metric_tracker.timestamps < cap
    /\ metric_tracker' = TrackerLog(metric_tracker, metric_name, value, epoch)
    /\ hist' = HistLog(hist, metric_name, value, epoch)
    /\ last' = [op |-> "log", raised |-> FALSE, events |-> <<>>,
                args |-> [name |-> metric_name, value |-> value, epoch |-> epoch]]
    /\ UNCHANGED ctlvars

\* the epoch arguments of SpecCalls: omitted, 0, or the last epoch
CallEpochs == {None, Some(0), Some(MaxEpoch)}

NextCalls ==
    \/ \E n \in Names, v \in Values, e \in CallEpochs : LogDirect(MaxMixLogs, n, v, e)
    \/ \E n \in Names, v \in Values, e \in CallEpochs : LogMetric(MaxMixLogs, n, v, e)
    \/ \E m \in Mappings, e \in CallEpochs : LogMetrics(MaxMixLogs, m, e)
    \/ Checkpoint(None)
    \/ TrainingComplete(None)

SpecCalls == InitCalls /\ [][NextCalls]_vars

(***************************************************************************)
(* SpecPolarity: a standalone tracker fed with names in several spellings  *)
(***************************************************************************)
MaxPolarityLogs == 2    \* Tracker.log calls in a run of SpecPolarity

PolarityNames ==
    {NameLoss, NameAcc,
     <<"L", "O", "S", "S">>,
     <<"v", "_", "L", "o", "s", "s", "1">>,
     <<"E", "r", "r", "o", "r">>,
     <<"e", "r", "r", "o", "r", "s">>,
     <<"l", "o", "s">>,
     <<"e", "r", "r">>,
     <<"l", "o", "-", "s", "s">>}

NextPolarity ==
    \E n \in PolarityNames, v \in Values : LogDirect(MaxPolarityLogs, n, v, None)

SpecPolarity == InitTracker /\ [][NextPolarity]_vars

(***************************************************************************)
(* SpecQueries: a standalone tracker; between the logs the caller asks for *)
(* the latest value, the series, the best record and the improvement flag  *)
(* of logged and of never logged names.                                    *)
(***************************************************************************)
MaxQueryLogs == 2   \* Tracker.log calls in a run of SpecQueries

NameF1 == <<"f", "1">>

QueryNames == Names \cup {NameF1}

\* a query and what it returned; the four methods assign nothing
Query(op, metric_name, result) ==
    /\ last' = [op |-> op, args |-> [name |-> metric_name], events |-> <<>>,
                raised |-> FALSE, result |-> result]
    /\ UNCHANGED <<metric_tracker, hist, ctlvars>>

GetLatest(metric_name) ==
    Query("get_latest", metric_name, get_latest(metric_tracker, metric_name))

GetAll(metric_name) ==
    Query("get_all", metric_name, get_all(metric_tracker, metric_name))

GetBest(metric_name) ==
    Query("get_best", metric_name, get_best(metric_tracker, metric_name))

CheckImprovement(metric_name) ==
    Query("check_improvement", metric_name, check_improvement(metric_tracker, metric_name))

GetSummary ==
    /\ last' = [op |-> "get_summary", args |-> <<>>, events |-> <<>>,
                raised |-> FALSE, result |-> get_summary(metric_tracker)]
    /\ UNCHANGED <<metric_tracker, hist, ctlvars>>

NextQueries ==
    \/ \E n \in Names, v \in Values, e \in {None, Some(MaxEpoch)} :
           LogDirect(MaxQueryLogs, n, v, e)
    \/ \E n \in QueryNames : GetLatest(n)
    \/ \E n \in QueryNames : GetAll(n)
    \/ \E n \in QueryNames : GetBest(n)
    \/ \E n \in QueryNames : CheckImprovement(n)
    \/ GetSummary

SpecQueries == InitTracker /\ [][NextQueries]_vars

(***************************************************************************)
(* SpecPlots: a controller with the Slack channel, no periodic checkpoint  *)
(* and no improvement notice, with or without plots; up to five metrics    *)
(* are logged, alone or in one mapping, and the caller asks for            *)
(* checkpoints and for the completion notice.                              *)
(***************************************************************************)
MaxPlotLogs == 6    \* Tracker.log calls in a run of SpecPlots

PlotNameSeq ==
    <<NameLoss, NameAcc, NameF1, <<"l", "r">>, <<"a", "u", "c">>>>

\* the mappings of SpecPlots: the first four names, and all five, each with value 1
PlotMappings ==
    {[i \in 1..k |-> [name |-> PlotNameSeq[i], value |-> 1]] :
        k \in {PlotThreshold, PlotThreshold + 1}}

PlotsArgs ==
    [email : {None},
     email_password : {None},
     recipient_email : {None},
     provider : {"gmail"},
     slack_webhook_url : {Some("https://hooks.slack.com/x")},
     discord_webhook_url : {None},
     config : {None},
     env : {NoEnv},
     notify_every_n_epochs : {0},
     notify_on_improvement : {FALSE},
     notify_on_error : {TRUE},
     include_plots : BOOLEAN]

InitPlots == \E a \in PlotsArgs : Construct(a)

NextPlots ==
    \/ \E n \in {PlotNameSeq[1], PlotNameSeq[PlotThreshold + 1]}, e \in {None, Some(1)} :
           LogMetric(MaxPlotLogs, n, 1, e)
    \/ \E m \in PlotMappings, e \in {None, Some(1)} : LogMetrics(MaxPlotLogs, m, e)
    \/ Checkpoint(None)
    \/ TrainingComplete(None)

SpecPlots == InitPlots /\ [][NextPlots]_vars

(***************************************************************************)
(* SpecDispatch: _send_to_all_notifiers step by step.  The loop variable   *)
(* is dispatch.i; dispatch.pc is "loop" at the head of the for loop,       *)
(* "sending" inside notifier.send_message and "idle" outside the method;   *)
(* dispatch.trace lists the calls of send_message and their returns.       *)
(***************************************************************************)
\* one more call of _send_to_all_notifiers starts
BeginDispatch ==
    /\ dispatch.pc = "idle"
    /\ dispatch' = [pc |-> "loop", i |-> 1, trace |-> <<>>]
    /\ UNCHANGED <<metric_tracker, config, notifiers, notify_every_n_epochs,
                   notify_on_improvement, notify_on_error, include_plots,
                   training_config, hist, last>>

\* mutant: the next channel's send is started without waiting for the return of
\* the send in progress
LoopStepNoWait ==
    /\ dispatch.pc \in {"loop", "sending"}
    /\ LET k == IF dispatch.pc = "sending" THEN dispatch.i + 1 ELSE dispatch.i
       IN  /\ k <= Len(notifiers)
           /\ dispatch' =
                 IF notifiers[k].enabled
                 THEN [pc |-> "sending", i |-> k,
                       trace |-> Append(dispatch.trace,
                                        [step |-> "call", kind |-> notifiers[k].kind])]
                 ELSE [dispatch EXCEPT !.i = k + 1]
    /\ UNCHANGED <<metric_tracker, config, notifiers, notify_every_n_epochs,
                   notify_on_improvement, notify_on_error, include_plots,
                   training_config, hist, last>>

\* core.py 324-327: the next channel of the list; send_message is called if it is
\* enabled
LoopStep ==
    /\ dispatch.pc = "loop"
    /\ dispatch.i <= Len(notifiers)
    /\ dispatch' =
          IF notifiers[dispatch.i].enabled
          THEN [dispatch EXCEPT !.pc = "sending",
                                !.trace = Append(@, [step |-> "call",
                                                     kind |-> notifiers[dispatch.i].kind])]
          ELSE [dispatch EXCEPT !.i = @ + 1]
    /\ UNCHANGED <<metric_tracker, config, notifiers, notify_every_n_epochs,
                   notify_on_improvement, notify_on_error, include_plots,
                   training_config, hist, last>>

\* core.py 327-334: send_message returns True or False, or raises and the except
\* clause prints; the loop goes on either way
SendReturn(outcome) ==
    /\ dispatch.pc = "sending"
    /\ dispatch' = [pc |-> "loop", i |-> dispatch.i + 1,
                    trace |-> Append(dispatch.trace,
                                     [step |-> "return", kind |-> notifiers[dispatch.i].kind,
                                      outcome |-> outcome])]
    /\ UNCHANGED <<metric_tracker, config, notifiers, notify_every_n_epochs,
                   notify_on_improvement, notify_on_error, include_plots,
                   training_config, hist, last>>

\* the for loop is exhausted and _send_to_all_notifiers returns
EndDispatch ==
    /\ dispatch.pc = "loop"
    /\ dispatch.i > Len(notifiers)
    /\ dispatch' = [dispatch EXCEPT !.pc = "idle"]
    /\ UNCHANGED <<metric_tracker, config, notifiers, notify_every_n_epochs,
                   notify_on_improvement, notify_on_error, include_plots,
                   training_config, hist, last>>

NextDispatch ==
    \/ BeginDispatch
    \/ LoopStep
    \/ \E outcome \in Outcomes : SendReturn(outcome)
    \/ EndDispatch

SpecDispatch == InitFanout /\ [][NextDispatch]_vars

(***************************************************************************)
(* SpecOps: a controller with the Slack channel and a checkpoint every 2   *)
(* epochs; every operation of the controller and the tracker's log are     *)
(* called in any order.                                                    *)
(***************************************************************************)
MaxOpsLogs == 2     \* Tracker.log calls in a run of SpecOps

OpsArgs ==
    [email : {None},
     email_password : {None},
     recipient_email : {None},
     provider : {"gmail"},
     slack_webhook_url : {Some("https://hooks.slack.com/x")},
     discord_webhook_url : {None},
     config : {None},
     env : {NoEnv},
     notify_every_n_epochs : {2},
     notify_on_improvement : {TRUE},
     notify_on_error : BOOLEAN,
     include_plots : {FALSE}]

InitOps == \E a \in OpsArgs : Construct(a)

\* the epoch arguments of SpecOps: omitted, or the last epoch
OpsEpochs == {None, Some(MaxEpoch)}

NextOps ==
    \/ \E cfg \in TrainingConfigs : StartTraining(cfg)
    \/ \E n \in Names, v \in Values, e \in OpsEpochs : LogDirect(MaxOpsLogs, n, v, e)
    \/ \E n \in Names, v \in Values, e \in OpsEpochs : LogMetric(MaxOpsLogs, n, v, e)
    \/ \E m \in Mappings, e \in OpsEpochs : LogMetrics(MaxOpsLogs, m, e)
    \/ Checkpoint(None)
    \/ TrainingComplete(None)
    \/ \E err \in Errors : OnError(err)

SpecOps == InitOps /\ [][NextOps]_vars

(***************************************************************************)
(* SpecConfig: the constructor with every combination of credentials, of   *)
(* provider, of a config dictionary and of an environment; last holds the  *)
(* constructor's arguments until the first call of a method.               *)
(***************************************************************************)
ConfigDicts ==
    {None,
     Some([smtp_server |-> "mail.corp.example", smtp_port |-> 25]),
     Some([email_address |-> "c@d"]),
     Some([slack_webhook_url |-> "https://hooks.slack.com/cfg"])}

Envs ==
    {NoEnv,
     [NoEnv EXCEPT !["smtp_server"] = Some("env.host"),
                   !["smtp_port"] = Some(<<"2", "5", "2", "5">>)],
     [NoEnv EXCEPT !["email_address"] = Some("e@f"),
                   !["slack_webhook_url"] = Some("https://hooks.slack.com/env")]}

ConfigArgs ==
    [email : {None, Some("a@b")},
     email_password : {None, Some("p")},
     recipient_email : {None},
     provider : {"gmail", "custom"},
     slack_webhook_url : {None, Some("https://hooks.slack.com/x")},
     discord_webhook_url : {None},
     config : ConfigDicts,
     env : Envs,
     notify_every_n_epochs : {1},
     notify_on_improvement : {TRUE},
     notify_on_error : {TRUE},
     include_plots : {FALSE}]

InitConfig ==
    \E a \in ConfigArgs :
        /\ config = CtorConfig(a)
        /\ notifiers = SetupNotifiers(CtorConfig(a))
        /\ notify_every_n_epochs = a.notify_every_n_epochs
        /\ notify_on_improvement = a.notify_on_improvement
        /\ notify_on_error = a.notify_on_error
        /\ include_plots = a.include_plots
        /\ metric_tracker = NewTracker
        /\ training_config = <<>>
        /\ dispatch = NoDispatch
        /\ hist = <<>>
        /\ last = Call("__init__", a, NoEvents)

NextConfig ==
    \/ \E cfg \in TrainingConfigs : StartTraining(cfg)
    \/ \E err \in Errors : OnError(err)

SpecConfig == InitConfig /\ [][NextConfig]_vars

(***************************************************************************)
(* SpecImprove: a controller with the Slack channel, the improvement       *)
(* notice and no periodic checkpoint; a training loop of three logs, with  *)
(* or without an epoch.                                                    *)
(***************************************************************************)
MaxImproveLogs == 3     \* Tracker.log calls in a run of SpecImprove
MaxImproveValue == 3    \* metric values are 1..MaxImproveValue in SpecImprove

ImproveValues == 1..MaxImproveValue

ImproveArgs ==
    [email : {None},
     email_password : {None},
     recipient_email : {None},
     provider : {"gmail"},
     slack_webhook_url : {Some("https://hooks.slack.com/x")},
     discord_webhook_url : {None},
     config : {None},
     env : {NoEnv},
     notify_every_n_epochs : {0},
     notify_on_improvement : {TRUE},
     notify_on_error : {TRUE},
     include_plots : {FALSE}]

InitImprove == \E a \in ImproveArgs : Construct(a)

NextImprove ==
    \/ \E n \in Names, v \in ImproveValues, e \in {None, Some(MaxEpoch)} :
           LogDirect(MaxImproveLogs, n, v, e)
    \/ \E n \in Names, v \in ImproveValues, e \in {None, Some(MaxEpoch)} :
           LogMetric(MaxImproveLogs, n, v, e)

SpecImprove == InitImprove /\ [][NextImprove]_vars

(***************************************************************************)
(* SpecEvents: a controller with the Discord channel, with or without the  *)
(* e-mail channel, a checkpoint every 2 epochs and no plots; every method  *)
(* that notifies is called, and every send succeeds, fails or raises.      *)
(***************************************************************************)
MaxEventLogs == 2   \* log_metric calls in a run of SpecEvents

EventsArgs ==
    [email : {None, Some("me@example.com")},
     email_password : {Some("secret")},
     recipient_email : {None},
     provider : {"gmail"},
     slack_webhook_url : {None},
     discord_webhook_url : {Some("https://discord.com/api/webhooks/x")},
     config : {None},
     env : {NoEnv},
     notify_every_n_epochs : {2},
     notify_on_improvement : {TRUE},
     notify_on_error : BOOLEAN,
     include_plots : {FALSE}]

InitEvents == \E a \in EventsArgs : Construct(a)

NextEvents ==
    \/ \E cfg \in TrainingConfigs : StartTraining(cfg)
    \/ \E e \in EpochArgs :
           LogMetric(MaxEventLogs, NameAcc, metric_tracker.timestamps + 1, e)
    \/ Checkpoint(None)
    \/ TrainingComplete(None)
    \/ \E err \in Errors : OnError(err)

SpecEvents == InitEvents /\ [][NextEvents]_vars

(***************************************************************************)
(* What the history says: helpers for the properties                       *)
(***************************************************************************)
HistValues(n) ==
    IF n \in DOMAIN hist THEN [i \in 1..Len(hist[n]) |-> hist[n][i].value] ELSE <<>>

SeqMin(s) == CHOOSE x \in Range(s) : \A y \in Range(s) : x <= y

SeqMax(s) == CHOOSE x \in Range(s) : \A y \in Range(s) : x >= y

\* the best value of a non-empty sequence of values under the polarity of name n
BestOf(n, s) == IF IsLoss(n) THEN SeqMin(s) ELSE SeqMax(s)

StrictlyBeats(n, a, b) == IF IsLoss(n) THEN a < b ELSE a > b

\* the epoch passed with the first call of h that logged value b
EpochOfFirst(h, b) ==
    h[CHOOSE i \in 1..Len(h) : h[i].value = b /\ \A j \in 1..(i - 1) : h[j].value # b].epoch

(***************************************************************************)
(* Properties of the tracker                                               *)
(***************************************************************************)

\* C1: get_all(name) is exactly the values logged under name, in call order,
\* whatever other names were logged in between and whatever the epochs were.
C1_GetAllIsHistory ==
    \A n \in Names : get_all(metric_tracker, n) = HistValues(n)

\* a state where two names were logged in turn, one of them twice with different
\* values, once with an epoch and once without
C1_Witness ==
    /\ DOMAIN hist = Names
    /\ \E n \in Names :
          /\ Len(hist[n]) >= 2
          /\ hist[n][1].value # hist[n][2].value
          /\ \E i, j \in 1..Len(hist[n]) : hist[n][i].epoch = None /\ hist[n][j].epoch # None

\* C2: for every logged metric, get_best(name).value is the best value of the whole
\* history under the polarity of the name, and get_best(name).epoch is the epoch
\* passed with the log call that set it.
C2_BestIsBestOfHistory ==
    \A n \in Names :
        n \in DOMAIN hist =>
            /\ get_best(metric_tracker, n) # None
            /\ get_best(metric_tracker, n)[1].value = BestOf(n, HistValues(n))
            /\ get_best(metric_tracker, n)[1].epoch =
                   EpochOfFirst(hist[n], BestOf(n, HistValues(n)))

\* a lower-is-better metric whose best was set by its second log, at another epoch
\* than the first, and followed by a worse value
C2_Witness ==
    /\ NameLoss \in DOMAIN hist
    /\ Len(hist[NameLoss]) = 3
    /\ hist[NameLoss][2].value < hist[NameLoss][1].value
    /\ hist[NameLoss][3].value > hist[NameLoss][2].value
    /\ hist[NameLoss][2].epoch # hist[NameLoss][1].epoch
    /\ get_best(metric_tracker, NameLoss)[1].epoch = hist[NameLoss][2].epoch

\* C3: check_improvement(name) is true iff the most recent value logged for name was
\* its first or strictly beat the best of all its earlier values; when it is false
\* the stored best value and epoch are still those of the earlier values.
C3_ImprovementFlag ==
    \A n \in Names :
        n \in DOMAIN hist =>
            LET h == hist[n]
                vals == HistValues(n)
                first == Len(h) = 1
                beats == ~first /\ StrictlyBeats(n, Last(vals), BestOf(n, Front(vals)))
            IN  /\ check_improvement(metric_tracker, n) = (first \/ beats)
                /\ (~first /\ ~beats) =>
                      /\ metric_tracker.best_metrics[n].value = BestOf(n, Front(vals))
                      /\ metric_tracker.best_metrics[n].epoch =
                             EpochOfFirst(Front(h), BestOf(n, Front(vals)))

\* a metric whose latest value equals its best so far (not an improvement), logged
\* after another metric improved
C3_Witness ==
    \E n \in Names, m \in Names :
        /\ n # m
        /\ n \in DOMAIN hist /\ m \in DOMAIN hist
        /\ Len(hist[n]) >= 2
        /\ Last(hist[n]).value = BestOf(n, Front(HistValues(n)))
        /\ last.op = "log" /\ last.args.name = n
        /\ ~check_improvement(metric_tracker, n)
        /\ check_improvement(metric_tracker, m)

(***************************************************************************)
(* Properties of the controller                                            *)
(***************************************************************************)
\* the events of the last call that have the given type
LastEvents(type) == SelectSeq(last.events, LAMBDA ev : ev.type = type)

\* the channel kinds of a sequence of channels or of send calls, in order
Kinds(s) == [i \in 1..Len(s) |-> s[i].kind]

\* C4 (as claimed): a log_metric or log_metrics call with a non-null epoch, 0 included,
\* dispatches exactly one checkpoint when notify_every_n_epochs = N > 0 and
\* epoch mod N = 0, and none otherwise (N = 0, no epoch, or not a multiple).
C4_CheckpointOnEveryBoundary ==
    last.op \in {"log_metric", "log_metrics"} =>
        LET epoch == last.args.epoch
            due == /\ epoch # None
                   /\ notify_every_n_epochs > 0
                   /\ epoch[1] % notify_every_n_epochs = 0
        IN  Len(LastEvents("checkpoint")) = IF due THEN 1 ELSE 0

\* C5: log_metric(name, v, epoch) dispatches an improvement notification iff
\* notify_on_improvement is true, name has at least two recorded values after the
\* call, and v strictly beats the best of the earlier ones; never more than one.
C5_ImprovementNotification ==
    last.op = "log_metric" =>
        LET n == last.args.name
            vals == HistValues(n)
            due == /\ notify_on_improvement
                   /\ Len(vals) >= 2
                   /\ StrictlyBeats(n, last.args.value, BestOf(n, Front(vals)))
        IN  Len(LastEvents("improvement")) = IF due THEN 1 ELSE 0

\* a log_metric call that dispatched an improvement notification for the second or
\* a later value of a metric
C5_Witness ==
    /\ last.op = "log_metric"
    /\ Len(HistValues(last.args.name)) >= 2
    /\ Len(LastEvents("improvement")) = 1

\* C8: log_metrics never dispatches an improvement notification; it dispatches at
\* most one event per call, a checkpoint, and only on an epoch boundary.
C8_LogMetricsOnlyCheckpoint ==
    last.op = "log_metrics" =>
        /\ LastEvents("improvement") = <<>>
        /\ Len(last.events) <= 1
        /\ \A i \in 1..Len(last.events) :
              /\ last.events[i].type = "checkpoint"
              /\ last.args.epoch # None
              /\ last.args.epoch[1] # 0
              /\ notify_every_n_epochs > 0
              /\ last.args.epoch[1] % notify_every_n_epochs = 0

\* a log_metrics call, with notify_on_improvement on, whose mapping strictly improved
\* a metric that already had a value, and which dispatched its one checkpoint
C8_Witness ==
    /\ last.op = "log_metrics"
    /\ notify_on_improvement
    /\ \E i \in 1..Len(last.args.mapping) :
          LET n == last.args.mapping[i].name
          IN  /\ Len(HistValues(n)) >= 2
              /\ StrictlyBeats(n, last.args.mapping[i].value, BestOf(n, Front(HistValues(n))))
              /\ check_improvement(metric_tracker, n)
    /\ Len(last.events) = 1

\* C6: in every notification event every enabled channel of the controller's list
\* receives its send call, in list order, whatever the earlier sends of the event did.
C6_FailureDoesNotStopFanout ==
    \A i \in 1..Len(last.events) :
        Kinds(last.events[i].calls) = Kinds(SelectSeq(notifiers, LAMBDA c : c.enabled))

\* an event whose first send raised and whose second returned failure, with a third
\* channel still called
C6_Witness ==
    \E i \in 1..Len(last.events) :
        LET calls == last.events[i].calls
        IN  /\ Len(calls) = 3
            /\ calls[1].outcome = "raise"
            /\ calls[2].outcome = "fail"

\* the channel has its required configuration: address and password for Email,
\* the webhook URL for Slack and for Discord
HasRequiredConfig(kind) ==
    CASE kind = "Email" ->
            Truthy(Get(config, "email_address")) /\ Truthy(Get(config, "email_password"))
      [] kind = "Slack" -> Truthy(Get(config, "slack_webhook_url"))
      [] kind = "Discord" -> Truthy(Get(config, "discord_webhook_url"))

\* C7: in every notification event a channel receives a send call iff it was
\* constructed with its required configuration.
C7_OnlyConfiguredChannels ==
    \A i \in 1..Len(last.events) :
        \A kind \in {"Email", "Slack", "Discord"} :
            (kind \in Range(Kinds(last.events[i].calls))) <=> HasRequiredConfig(kind)

\* an event sent to Slack alone by a controller given an e-mail address without a
\* password and no Discord URL
C7_Witness ==
    /\ Truthy(Get(config, "email_address"))
    /\ ~Truthy(Get(config, "email_password"))
    /\ \E i \in 1..Len(last.events) : Kinds(last.events[i].calls) = <<"Slack">>

\* C9: on_error returns normally, for every error argument and every outcome of
\* every send; with notify_on_error true it has dispatched its one event.
C9_OnErrorNeverRaises ==
    last.op = "on_error" =>
        /\ ~last.raised
        /\ notify_on_error => Len(last.events) = 1 /\ last.events[1].type = "error"

\* an on_error call for an exception with a traceback, during which one send raised
\* and another returned failure
C9_Witness ==
    /\ last.op = "on_error"
    /\ last.args.error = [kind |-> "exception", has_traceback |-> TRUE]
    /\ Len(last.events) = 1
    /\ \E j, k \in 1..Len(last.events[1].calls) :
          /\ last.events[1].calls[j].outcome = "raise"
          /\ last.events[1].calls[k].outcome = "fail"

\* C10: with notify_on_error false, on_error sends nothing and changes no state of
\* the controller or of the tracker.
C10_OnErrorDisabledIsNoOp ==
    [][(last'.op = "on_error" /\ ~notify_on_error) =>
          /\ last'.events = <<>>
          /\ ~last'.raised
          /\ UNCHANGED <<metric_tracker, config, notifiers, notify_every_n_epochs,
                         notify_on_improvement, notify_on_error, include_plots,
                         training_config>>]_vars

\* on_error was called with notify_on_error false on a controller that has enabled
\* channels, a training configuration and logged metrics
C10_Witness ==
    /\ last.op = "on_error"
    /\ ~notify_on_error
    /\ Len(notifiers) >= 2
    /\ training_config # <<>>
    /\ DOMAIN metric_tracker.metrics # {}

(***************************************************************************)
(* Properties of the summary, of the latest value and of the checkpoint    *)
(* report                                                                  *)
(***************************************************************************)
\* the distinct epoch values passed to the log calls so far
HistEpochs ==
    UNION {{hist[n][i].epoch[1] : i \in {j \in 1..Len(hist[n]) : hist[n][j].epoch # None}} :
              n \in DOMAIN hist}

\* C11: the summary's total_epochs is the number of distinct non-null epoch values
\* passed to the log calls so far, over all metric names and all three ways of
\* logging; the completion notice carries the same number.
C11_TotalEpochsCountsDistinct ==
    /\ get_summary(metric_tracker).total_epochs = Cardinality(HistEpochs)
    /\ \A i \in 1..Len(LastEvents("complete")) :
           LastEvents("complete")[i].content.summary.total_epochs = Cardinality(HistEpochs)

\* the completion notice after two metrics were logged at the same epoch, which is
\* counted once
C11_Witness ==
    /\ last.op = "training_complete"
    /\ Len(last.events) = 1
    /\ DOMAIN hist = Names
    /\ \A n \in Names : Len(hist[n]) = 1 /\ hist[n][1].epoch = Some(MaxEpoch)
    /\ get_summary(metric_tracker).total_epochs = 1

\* C14: for every name with at least one logged value, get_latest(name) is the value
\* of the most recent log of that name, whichever way it was logged and whatever
\* was logged for other names since.
C14_LatestIsLastLogged ==
    \A n \in Names :
        n \in DOMAIN hist => get_latest(metric_tracker, n) = Some(Last(hist[n]).value)

\* a name logged once by an earlier call, then with another value through
\* log_metrics
C14_Witness ==
    /\ last.op = "log_metrics"
    /\ \E n \in Names :
          /\ n \in DOMAIN hist
          /\ Len(hist[n]) = 2
          /\ hist[n][1].value # hist[n][2].value
          /\ Len(last.args.mapping) = 1
          /\ get_latest(metric_tracker, n) = Some(hist[n][2].value)

\* C18: a checkpoint dispatched by checkpoint(message) without a metrics argument
\* reports a mapping whose keys are the names logged so far and whose values are
\* the most recently logged value of each.
C18_CheckpointReportsLatest ==
    (last.op = "checkpoint" /\ last.args.metrics = None) =>
        \A i \in 1..Len(last.events) :
            /\ DOMAIN last.events[i].content.metrics = DOMAIN hist
            /\ \A n \in DOMAIN hist :
                  last.events[i].content.metrics[n] = Last(hist[n]).value

\* a checkpoint without metrics dispatched when a metric had two values, the latest
\* of which is neither its first nor its best
C18_Witness ==
    /\ last.op = "checkpoint" /\ last.args.metrics = None
    /\ Len(last.events) = 1
    /\ \E n \in Names :
          /\ n \in DOMAIN hist
          /\ Len(hist[n]) = 2
          /\ Last(hist[n]).value # hist[n][1].value
          /\ Last(hist[n]).value # BestOf(n, HistValues(n))
          /\ last.events[1].content.metrics[n] = Last(hist[n]).value

(***************************************************************************)
(* Polarity                                                                *)
(***************************************************************************)
UpperOf(c) ==
    CASE c = "l" -> "L" [] c = "o" -> "O" [] c = "s" -> "S"
      [] c = "e" -> "E" [] c = "r" -> "R" [] OTHER -> c

\* word w occurs in name n, each letter in either case
OccursAnyCase(n, w) ==
    \E i \in 1..(Len(n) - Len(w) + 1) :
        \A j \in 1..Len(w) : n[i + j - 1] \in {w[j], UpperOf(w[j])}

LowerIsBetter(n) ==
    \/ OccursAnyCase(n, <<"l", "o", "s", "s">>)
    \/ OccursAnyCase(n, <<"e", "r", "r", "o", "r">>)

\* C12: a name is lower-is-better iff it contains "loss" or "error" in any mix of
\* cases, and the best value the tracker keeps for a name is the minimum of its
\* values if the name is lower-is-better and the maximum otherwise.
C12_PolarityFromName ==
    /\ \A n \in PolarityNames : IsLoss(n) <=> LowerIsBetter(n)
    /\ \A n \in DOMAIN hist :
          metric_tracker.best_metrics[n].value =
              IF LowerIsBetter(n) THEN SeqMin(HistValues(n)) ELSE SeqMax(HistValues(n))

\* a name that spells the word with capitals, whose second and smaller value
\* became its best
C12_Witness ==
    \E n \in PolarityNames :
        /\ n # LowerStr(n)
        /\ LowerIsBetter(n)
        /\ n \in DOMAIN hist
        /\ Len(hist[n]) = 2
        /\ hist[n][2].value < hist[n][1].value
        /\ metric_tracker.best_metrics[n].value = hist[n][2].value

(***************************************************************************)
(* Queries on names that were never logged                                 *)
(***************************************************************************)
Queries == {"get_latest", "get_all", "get_best", "check_improvement"}

\* C13: a query on a name that was never logged returns normally with the empty
\* result of its kind (no latest value, the empty series, no best record, not
\* improved), and afterwards the name is still untracked and the logged names'
\* series are what was logged.
C13_UnknownNameQueries ==
    (last.op \in Queries /\ last.args.name \notin DOMAIN hist) =>
        /\ ~last.raised
        /\ last.result = CASE last.op = "get_latest" -> None
                            [] last.op = "get_all" -> <<>>
                            [] last.op = "get_best" -> None
                            [] last.op = "check_improvement" -> FALSE
        /\ last.args.name \notin DOMAIN metric_tracker.metrics
        /\ last.args.name \notin DOMAIN metric_tracker.best_metrics
        /\ DOMAIN metric_tracker.metrics = DOMAIN hist
        /\ \A n \in DOMAIN hist : metric_tracker.metrics[n] = HistValues(n)

\* check_improvement asked of a name that was never logged, on a tracker whose
\* logged name has just improved
C13_Witness ==
    /\ last.op = "check_improvement"
    /\ last.args.name = NameF1
    /\ last.result = FALSE
    /\ \E n \in DOMAIN hist : Len(hist[n]) = 2 /\ check_improvement(metric_tracker, n)

(***************************************************************************)
(* Calls that return, and plots                                            *)
(***************************************************************************)
\* C15 (as claimed): start_training, log_metric, log_metrics, checkpoint and
\* training_complete return normally to the caller, whatever the sends of the
\* channels do.
C15_CallsReturnNormally ==
    last.op \in {"start_training", "log_metric", "log_metrics", "checkpoint",
                 "training_complete"} => ~last.raised

\* C17 (as claimed): a checkpoint or training_complete call with include_plots true
\* and at least one tracked metric requests exactly one combined plot of all metrics
\* when at most 4 names are tracked and exactly one plot per tracked name when more
\* are; with include_plots false or nothing tracked it requests no plot and
\* dispatches without attachments.
C17_PlotRequestsByCount ==
    last.op \in {"checkpoint", "training_complete"} =>
        LET names == DOMAIN hist
            req == RequestedPlots(metric_tracker)
        IN  IF include_plots /\ names # {}
            THEN IF Cardinality(names) <= 4
                 THEN req = <<[plot |-> "multi", names |-> names]>>
                 ELSE /\ Len(req) = Cardinality(names)
                      /\ \A n \in names :
                            \E i \in 1..Len(req) : req[i] = [plot |-> "single", names |-> {n}]
            ELSE /\ req = <<>>
                 /\ \A i \in 1..Len(last.events) : last.events[i].content.attachments = None

(***************************************************************************)
(* Channel status                                                          *)
(***************************************************************************)
ChannelKinds == {"Email", "Slack", "Discord"}

\* the channels the controller sees as enabled
EnabledKinds == {notifiers[i].kind : i \in {j \in 1..Len(notifiers) : notifiers[j].enabled}}

C19_ImprovementReport ==
    last.op = "log_metric" =>
        \A i \in 1..Len(LastEvents("improvement")) :
            LET c == LastEvents("improvement")[i].content
                h == hist[last.args.name]
            IN  /\ c.name = last.args.name
                /\ c.prev_value = h[Len(h) - 1].value
                /\ c.value = last.args.value
                /\ c.epoch = IF last.args.epoch # None THEN last.args.epoch[1] ELSE Len(h)

(***************************************************************************)
(* Order of the sends                                                      *)
(***************************************************************************)
RegistrationOrder == <<"Email", "Slack", "Discord">>

\* the kinds of the send calls started so far in the dispatch, in order
CalledKinds == Kinds(SelectSeq(dispatch.trace, LAMBDA st : st.step = "call"))

\* the registration order restricted to the channels that have their configuration
ConfiguredInOrder == SelectSeq(RegistrationOrder, LAMBDA k : HasRequiredConfig(k))

\* C20: within a dispatch the sends are started in the order Email, Slack, Discord
\* restricted to the enabled channels, each one only after the previous send has
\* returned or raised; when the dispatch is over every enabled channel has had its
\* send, once.
C20_SendsInRegistrationOrder ==
    /\ CalledKinds = SubSeq(ConfiguredInOrder, 1, Len(CalledKinds))
    /\ \A j \in 1..Len(dispatch.trace) :
          IF j % 2 = 1
          THEN dispatch.trace[j].step = "call"
          ELSE /\ dispatch.trace[j].step = "return"
               /\ dispatch.trace[j].kind = dispatch.trace[j - 1].kind
    /\ (dispatch.pc = "idle" /\ dispatch.trace # <<>>) => CalledKinds = ConfiguredInOrder

\* Discord's send is in progress after Email's send raised and Slack's returned
\* failure
C20_Witness ==
    /\ dispatch.pc = "sending"
    /\ Len(dispatch.trace) = 5
    /\ dispatch.trace[2] = [step |-> "return", kind |-> "Email", outcome |-> "raise"]
    /\ dispatch.trace[4] = [step |-> "return", kind |-> "Slack", outcome |-> "fail"]
    /\ dispatch.trace[5] = [step |-> "call", kind |-> "Discord"]

(***************************************************************************)
(* What the operations leave alone                                         *)
(***************************************************************************)
\* C21: an on_error call, with notify_on_error true or false, leaves training_config
\* and the whole tracker as they were: every series, every best record with its
\* improved flag, the epoch list, and so the summary.
C21_OnErrorLeavesState ==
    [][last'.op = "on_error" =>
          /\ training_config' = training_config
          /\ metric_tracker' = metric_tracker
          /\ get_summary(metric_tracker') = get_summary(metric_tracker)
          /\ \A n \in Names :
                check_improvement(metric_tracker', n) = check_improvement(metric_tracker, n)]_vars

\* on_error has sent its notification on a controller that holds a training
\* configuration and a metric that has just improved
C21_Witness ==
    /\ last.op = "on_error"
    /\ Len(last.events) = 1
    /\ training_config # <<>>
    /\ \E n \in DOMAIN hist : Len(hist[n]) = 2 /\ check_improvement(metric_tracker, n)
    /\ metric_tracker.epochs # <<>>

\* C23: over every step of every operation, each name's series is the series
\* before the step or that series with one value added at its end.
C23_SeriesAppendOnly ==
    [][\A n \in Names :
          LET old == get_all(metric_tracker, n)
              new == get_all(metric_tracker', n)
          IN  \/ new = old
              \/ Len(new) = Len(old) + 1 /\ Front(new) = old]_vars

\* a series of two different values, extended by log_metrics after other
\* operations
C23_Witness ==
    /\ last.op = "log_metrics"
    /\ training_config # <<>>
    /\ \E n \in DOMAIN hist :
          /\ Len(hist[n]) = 2
          /\ hist[n][1].value # hist[n][2].value
          /\ get_all(metric_tracker, n) = HistValues(n)

(***************************************************************************)
(* Precedence in the configuration                                         *)
(***************************************************************************)
\* the constructor argument that sets a key of the configuration
ArgFor(a, k) ==
    CASE k = "email_address" -> a.email
      [] k = "email_password" -> a.email_password
      [] k = "recipient_email" -> a.recipient_email
      [] k = "slack_webhook_url" -> a.slack_webhook_url
      [] k = "discord_webhook_url" -> a.discord_webhook_url
      [] OTHER -> None

\* the values the caller gave for a key: the constructor argument, the entry of
\* the config dictionary
Explicits(a, k) ==
    (IF Truthy(ArgFor(a, k)) THEN {ArgFor(a, k)[1]} ELSE {})
    \cup (IF a.config # None /\ k \in DOMAIN a.config[1] THEN {a.config[1][k]} ELSE {})

\* C22: in the configuration the constructor assembles, a key for which the
\* caller gave a value (a constructor argument or an entry of the config
\* dictionary) holds a value the caller gave, whatever the environment and the
\* provider preset hold for that key.
C22_ExplicitWins ==
    last.op = "__init__" =>
        \A k \in ConfigKeys :
            Explicits(last.args, k) # {} =>
                k \in DOMAIN config /\ config[k] \in Explicits(last.args, k)

(***************************************************************************)
(* The summary                                                             *)
(***************************************************************************)
\* C25: after any sequence of log calls get_summary returns total_metrics equal to
\* the number of distinct names logged and, for each logged name, count equal to
\* the number of values logged for it, latest equal to get_latest(name), and best
\* and best_epoch equal to the value and the epoch of get_best(name).
C25_SummaryFields ==
    last.op = "get_summary" =>
        LET r == last.result
        IN  /\ r.total_metrics = Cardinality(DOMAIN hist)
            /\ DOMAIN r.metrics = DOMAIN hist
            /\ \A n \in DOMAIN hist :
                  /\ r.metrics[n].count = Len(hist[n])
                  /\ Some(r.metrics[n].latest) = get_latest(metric_tracker, n)
                  /\ get_best(metric_tracker, n) # None
                  /\ r.metrics[n].best = Some(get_best(metric_tracker, n)[1].value)
                  /\ r.metrics[n].best_epoch = get_best(metric_tracker, n)[1].epoch

\* the summary of a tracker that holds two names, one logged with an epoch
C25_Witness ==
    /\ last.op = "get_summary"
    /\ last.result.total_metrics = 2
    /\ \E n \in DOMAIN hist : last.result.metrics[n].best_epoch # None

(***************************************************************************)
(* Order of the events of log_metric, and the axes of the plots            *)
(***************************************************************************)
\* the types of the events of the last call, in the order of their dispatch
LastTypes == [i \in 1..Len(last.events) |-> last.events[i].type]

\* C24 (as claimed): the events of a log_metric call are the improvement
\* notification, if one is due, followed by the checkpoint, if the epoch is a
\* multiple of notify_every_n_epochs (0 included); the checkpoint is there on every
\* such epoch, with or without an improvement notification before it, and both
\* events report the value just logged.
C24_ImprovementThenCheckpoint ==
    last.op = "log_metric" =>
        LET epoch == last.args.epoch
            boundary == /\ epoch # None
                        /\ notify_every_n_epochs > 0
                        /\ epoch[1] % notify_every_n_epochs = 0
            improved == LastEvents("improvement") # <<>>
        IN  /\ LastTypes = (IF improved THEN <<"improvement">> ELSE <<>>)
                            \o (IF boundary THEN <<"checkpoint">> ELSE <<>>)
            /\ \A i \in 1..Len(last.events) :
                  IF last.events[i].type = "improvement"
                  THEN last.events[i].content.value = last.args.value
                  ELSE last.events[i].content.metrics[last.args.name] = last.args.value

\* C26 (as claimed): when checkpoint or training_complete requests plots, the x
\* sequence of every metric's plot (the tracker's epochs, or the indices of the
\* values when no epoch was ever logged) is as long as the metric's series.
C26_PlotAxesAlign ==
    (/\ last.op \in {"checkpoint", "training_complete"}
     /\ include_plots
     /\ DOMAIN metric_tracker.metrics # {}) =>
        \A n \in DOMAIN metric_tracker.metrics :
            PlotXAxisLen(metric_tracker, metric_tracker.metrics[n])
                = Len(metric_tracker.metrics[n])

(***************************************************************************)
(* The direction of a reported improvement                                 *)
(***************************************************************************)
\* C27: in every improvement notification of log_metric the new value is strictly
\* better than the reported previous value, the second-to-last of the series:
\* smaller for a lower-is-better name, greater otherwise; never equal, never worse.
C27_ImprovementIsStrict ==
    last.op = "log_metric" =>
        \A i \in 1..Len(LastEvents("improvement")) :
            LET c == LastEvents("improvement")[i].content
                vals == HistValues(c.name)
            IN  /\ Len(vals) >= 2
                /\ c.prev_value = vals[Len(vals) - 1]
                /\ c.value = vals[Len(vals)]
                /\ IF LowerIsBetter(c.name)
                   THEN c.value < c.prev_value
                   ELSE c.value > c.prev_value

\* an improvement notification for the third value of a metric whose second
\* value was worse than its first: the previous value is not the old best
C27_Witness ==
    /\ last.op = "log_metric"
    /\ Len(LastEvents("improvement")) = 1
    /\ LET c == LastEvents("improvement")[1].content
           vals == HistValues(c.name)
       IN  /\ Len(vals) = 3
           /\ c.prev_value # BestOf(c.name, Front(vals))
           /\ LowerIsBetter(c.name)

(***************************************************************************)
(* What a log leaves alone                                                 *)
(***************************************************************************)
\* the last value logged under name m strictly beat the best of m's earlier
\* values, or was m's first
LastLogImproved(m) ==
    LET vals == HistValues(m)
    IN  Len(vals) = 1 \/ StrictlyBeats(m, Last(vals), BestOf(m, Front(vals)))

\* C28: a log of one name leaves the series, the best record (value, epoch and
\* improved flag) and so check_improvement of every other name as they were;
\* check_improvement(other) still tells whether other's own last log improved.
C28_LogTouchesOwnNameOnly ==
    [][last'.op = "log" =>
          \A m \in Names \ {last'.args.name} :
              /\ get_all(metric_tracker', m) = get_all(metric_tracker, m)
              /\ get_best(metric_tracker', m) = get_best(metric_tracker, m)
              /\ check_improvement(metric_tracker', m) = check_improvement(metric_tracker, m)
              /\ m \in DOMAIN hist' => (check_improvement(metric_tracker', m) <=> LastLogImproved(m)')]_vars

\* a log that did not improve its own metric, made while the other metric's last
\* log had improved it
C28_Witness ==
    /\ last.op = "log"
    /\ Len(hist[last.args.name]) = 2
    /\ ~check_improvement(metric_tracker, last.args.name)
    /\ \E m \in DOMAIN hist \ {last.args.name} :
          /\ check_improvement(metric_tracker, m)
          /\ get_best(metric_tracker, m)[1].epoch # None

(***************************************************************************)
(* What the checkpoint of a log call reports                               *)
(***************************************************************************)
\* the names of a mapping given as the sequence of its items
MappingNames(mapping) == {mapping[i].name : i \in 1..Len(mapping)}

\* C29: the checkpoint dispatched by log_metrics(mapping, epoch) reports exactly the
\* names and values of the mapping, whatever else is tracked, and is dispatched
\* when every entry of the mapping is in the tracker (its plots cover them); the
\* checkpoint dispatched by log_metric reports the latest value of every tracked
\* metric.
C29_CheckpointReport ==
    /\ last.op = "log_metrics" =>
          \A k \in 1..Len(LastEvents("checkpoint")) :
              LET c == LastEvents("checkpoint")[k].content
                  mapping == last.args.mapping
              IN  /\ DOMAIN c.metrics = MappingNames(mapping)
                  /\ \A i \in 1..Len(mapping) : c.metrics[mapping[i].name] = mapping[i].value
                  /\ c.attachments # None =>
                        MappingNames(mapping) \subseteq UNION {p.names : p \in c.attachments[1]}
    /\ last.op = "log_metric" =>
          \A k \in 1..Len(LastEvents("checkpoint")) :
              LET c == LastEvents("checkpoint")[k].content
              IN  /\ DOMAIN c.metrics = DOMAIN hist
                  /\ \A n \in DOMAIN hist : c.metrics[n] = Last(hist[n]).value

\* a log_metrics call whose checkpoint, with plots, was dispatched while a metric
\* outside the mapping was tracked
C29_Witness ==
    /\ last.op = "log_metrics"
    /\ Len(LastEvents("checkpoint")) = 1
    /\ LastEvents("checkpoint")[1].content.attachments # None
    /\ last.args.mapping # <<>>
    /\ DOMAIN hist \ MappingNames(last.args.mapping) # {}

(***************************************************************************)
(* One send per channel and per event                                      *)
(***************************************************************************)
\* the number of send calls of an event made to the channel of kind k
SendsTo(ev, k) == Cardinality({j \in 1..Len(ev.calls) : ev.calls[j].kind = k})

\* C30: every notification event of every call (start, improvement, checkpoint,
\* completion, error) makes one send call to each enabled channel of the list and
\* none to any other, whatever the sends return; the call then returns, with
\* each of its events dispatched once: a failed send is not repeated and a failed
\* event is not dispatched again.
C30_OneSendPerChannelPerEvent ==
    /\ \A i \in 1..Len(last.events) :
          /\ \A k \in EnabledKinds : SendsTo(last.events[i], k) = 1
          /\ \A k \in ChannelKinds \ EnabledKinds : SendsTo(last.events[i], k) = 0
    /\ \A i, j \in 1..Len(last.events) : i # j => LastTypes[i] # LastTypes[j]
    /\ ~last.raised
    /\ last.op = "start_training" => LastTypes = <<"start">>
    /\ last.op = "checkpoint" => LastTypes = <<"checkpoint">>
    /\ last.op = "training_complete" => LastTypes = <<"complete">>
    /\ (last.op = "on_error" /\ notify_on_error) => LastTypes = <<"error">>

\* a log_metric call with two channels that dispatched an improvement notification,
\* one send of which failed and the other raised, and then a checkpoint whose
\* first send raised
C30_Witness ==
    /\ last.op = "log_metric"
    /\ Len(notifiers) = 2
    /\ LastTypes = <<"improvement", "checkpoint">>
    /\ last.events[1].calls[1].outcome = "fail"
    /\ last.events[1].calls[2].outcome = "raise"
    /\ last.events[2].calls[1].outcome = "raise"
    /\ Len(last.events[2].calls) = 2

====
